---- MODULE Spec2Model ----
(***************************************************************************)
(* Model of backend/main.py of Tastegent: the menu store kept in the       *)
(* process-wide list menu_data and mirrored to menu.json, the upload        *)
(* endpoint, and the chat endpoint with its three provider helpers.         *)
(*                                                                          *)
(* Every handler is an async function without an await between its reads    *)
(* and writes of menu_data (upload awaits only file.read()), so one         *)
(* handler is one atomic action of the process.                             *)
(***************************************************************************)
EXTENDS Integers, Sequences, FiniteSets, TLC

VARIABLES
    running,    \* the module was imported without an exception
    menu_data,  \* the global list menu_data
    file,       \* menu.json: [state: "ok" | "missing" | "corrupt", data: list]
    uploads,    \* the files of the uploads directory, in creation order
    env,        \* the providers whose API key is set in the environment
    last,       \* the response to the most recent request
    everIds,    \* history: the id of every item that ever was in menu_data
    gone,       \* history: ids deleted with success and no create since
    token,      \* the bearer token of the most recent request
    other       \* menu_data of a second worker process, <<>> when there is none

vars ==
    <<running, menu_data, file, uploads, env, last, everIds, gone, token, other>>

----------------------------------------------------------------------------
(* Bounds of the model *)

MaxItems == 2      \* create is explored while the list is shorter than this
MaxId == 3         \* create is explored while the next id is at most this
MaxUploads == 2    \* upload is explored while the directory holds fewer files

----------------------------------------------------------------------------
(* Values *)

NULL == "null"     \* Python None / JSON null of imageUrl

\* MenuItemCreate payloads (name, description, price, tags); price in cents.
Pizza ==
    [name |-> "Pytest Pizza", description |-> "A pizza for testing purposes.",
     price |-> 1337, tags |-> <<"test", "pizza">>]

UpdatedPizza ==
    [name |-> "Updated Pytest Pizza", description |-> "Updated description.",
     price |-> 9999, tags |-> <<"updated", "test">>]

Payloads == {Pizza, UpdatedPizza}

ImageUrls == {"/uploads/a.jpg"}

\* class MenuItem
MenuItem(id, f, img) ==
    [id |-> id, name |-> f.name, description |-> f.description,
     price |-> f.price, tags |-> f.tags, imageUrl |-> img]

NoItem ==
    [id |-> 0, name |-> "", description |-> "", price |-> 0, tags |-> <<>>,
     imageUrl |-> NULL]

NoPayload == [name |-> "", description |-> "", price |-> 0, tags |-> <<>>]

NoUrl == [n |-> 0, ext |-> ""]

\* The most recent request and its response.  Of the request: op, the path
\* parameter id, the body (payload, imageUrl) and the uploaded part's content
\* type (reqtype).  Of the response: status, detail, and the body (item, menu,
\* url and ctype, role and content).  calls lists the provider calls chat made.
\* The fields a handler does not set keep the values given here.
Response(op, status) ==
    [op |-> op, id |-> 0, payload |-> NoPayload, imageUrl |-> NULL,
     reqtype |-> <<>>,
     status |-> status, detail |-> "", item |-> NoItem, menu |-> <<>>,
     url |-> NoUrl, ctype |-> <<>>, role |-> "", content |-> "",
     calls |-> <<>>]

Ids(menu) == {menu[i].id : i \in 1..Len(menu)}

RECURSIVE SetMax(_)
SetMax(S) ==
    LET x == CHOOSE y \in S : TRUE
    IN  IF S = {x} THEN x
        ELSE LET m == SetMax(S \ {x}) IN IF x > m THEN x ELSE m

\* Variant of Without with the test inverted: it keeps the matching items.
RECURSIVE WithoutInverted(_, _)
WithoutInverted(menu, item_id) ==
    IF menu = <<>> THEN <<>>
    ELSE IF Head(menu).id # item_id THEN WithoutInverted(Tail(menu), item_id)
         ELSE <<Head(menu)>> \o WithoutInverted(Tail(menu), item_id)

\* [item for item in menu if item["id"] != item_id]
RECURSIVE Without(_, _)
Without(menu, item_id) ==
    IF menu = <<>> THEN <<>>
    ELSE IF Head(menu).id = item_id THEN Without(Tail(menu), item_id)
         ELSE <<Head(menu)>> \o Without(Tail(menu), item_id)

\* Variant of FirstIndex without the not-found case: a missing id falls on
\* the first item.
FirstIndexOrFirst(menu, item_id) ==
    IF item_id \in Ids(menu)
    THEN CHOOSE i \in 1..Len(menu) :
            /\ menu[i].id = item_id
            /\ \A j \in 1..(i - 1) : menu[j].id # item_id
    ELSE IF menu # <<>> THEN 1 ELSE 0

\* the index of the first item with that id, 0 when there is none
FirstIndex(menu, item_id) ==
    IF item_id \in Ids(menu)
    THEN CHOOSE i \in 1..Len(menu) :
            /\ menu[i].id = item_id
            /\ \A j \in 1..(i - 1) : menu[j].id # item_id
    ELSE 0

----------------------------------------------------------------------------
(* menu.json *)

OkFile(menu) == [state |-> "ok", data |-> menu]
MissingFile == [state |-> "missing", data |-> <<>>]
CorruptFile == [state |-> "corrupt", data |-> <<>>]

\* Outcomes of  with open("menu.json", "w") as f: json.dump(menu_data, f):
\* "ok", "open_fail" (open raises, the file is untouched), "dump_fail" (open
\* truncated the file and the dump raised before the JSON text was complete).
WriteOutcomes == {"ok", "open_fail", "dump_fail"}

\* Variant of WriteMenu that writes the list without its last item.
WriteMenuStale(menu, w) ==
    CASE w = "ok" -> OkFile(IF menu = <<>> THEN menu ELSE SubSeq(menu, 1, Len(menu) - 1))
      [] w = "open_fail" -> file
      [] OTHER -> CorruptFile

WriteMenu(menu, w) ==
    CASE w = "ok" -> OkFile(menu)
      [] w = "open_fail" -> file
      [] OTHER -> CorruptFile

\* The menu.json files the process may find at start-up.
InitMenus ==
    { <<>>,
      <<MenuItem(1, Pizza, NULL)>>,
      <<MenuItem(2, UpdatedPizza, "/uploads/a.jpg")>>,
      <<MenuItem(1, Pizza, "/uploads/a.jpg"), MenuItem(2, UpdatedPizza, NULL)>> }

InitFiles == {MissingFile, CorruptFile} \cup {OkFile(m) : m \in InitMenus}

----------------------------------------------------------------------------
(* Start-up: lines 170-176.  Only FileNotFoundError is caught; a menu.json  *)
(* that is not valid JSON makes json.load raise and the import fail.        *)

LoadMenu(f) == IF f.state = "ok" THEN f.data ELSE <<>>

Loads(f) == f.state # "corrupt"

Providers == <<"gemini", "anthropic", "openai">>

ProviderSet == {Providers[i] : i \in 1..Len(Providers)}

\* A request's bearer token: absent, or a JWT whose signature and expiry
\* jwt.decode accepts (valid) or not, carrying a "sub" claim or none (NULL).
NoToken == [present |-> FALSE, valid |-> FALSE, sub |-> NULL]

Jwt(valid, sub) == [present |-> TRUE, valid |-> valid, sub |-> sub]

\* fake_users_db: the one admin user, not disabled
ADMIN == "admin"

fake_users_db == {[username |-> ADMIN, disabled |-> FALSE]}

AdminToken == Jwt(TRUE, ADMIN)

\* no header; a forged or expired token; a good token without "sub", of an
\* unknown user, of the admin
Tokens ==
    {NoToken, Jwt(FALSE, ADMIN), Jwt(TRUE, NULL), Jwt(TRUE, "guest"), AdminToken}

Init ==
    /\ token = AdminToken
    /\ other = <<>>
    /\ file \in InitFiles
    /\ running = Loads(file)
    /\ menu_data = LoadMenu(file)
    /\ uploads = <<>>
    /\ env = {}
    /\ last = Response("start", 0)
    /\ everIds = Ids(menu_data)
    /\ gone = {}

----------------------------------------------------------------------------
(* Menu store handlers *)

WRITE_FAILED == "Failed to write to menu.json"
NOT_FOUND == "Menu item not found"
INTERNAL_ERROR == "Internal Server Error"

\* GET /menu
get_menu ==
    /\ running
    /\ last' = [Response("list", 200) EXCEPT !.menu = menu_data]
    /\ UNCHANGED <<running, menu_data, file, uploads, env, everIds, gone>>

\* Variants of NextId with a slip: the length instead of the maximum, and the
\* maximum without the increment.
NextIdByLength(menu) == Len(menu) + 1

NextIdMaxOnly(menu) == IF menu # <<>> THEN SetMax(Ids(menu)) ELSE 1

\* new_id = max(i["id"] for i in menu_data) + 1 if menu_data else 1
NextId(menu) == IF menu # <<>> THEN SetMax(Ids(menu)) + 1 ELSE 1

\* POST /admin/menu
create_menu_item(item, w) ==
    LET new_id == NextId(menu_data)
        new_item == MenuItem(new_id, item, NULL)
        appended == Append(menu_data, new_item)
    IN  /\ running
        /\ Len(menu_data) < MaxItems
        /\ new_id <= MaxId
        /\ menu_data' = appended
        /\ file' = WriteMenu(appended, w)
        /\ last' = IF w = "ok"
                   THEN [Response("create", 200) EXCEPT
                            !.payload = item, !.item = new_item]
                   ELSE [Response("create", 500) EXCEPT
                            !.payload = item, !.detail = WRITE_FAILED]
        /\ everIds' = everIds \cup {new_id}
        /\ gone' = {}
        /\ UNCHANGED <<running, uploads, env>>

\* Variant of UpdatedItem that leaves imageUrl at the model's default.
UpdatedItemDropsImage(item, item_id, item_update) ==
    MenuItem(item_id, item_update, NULL)

\* updated_item: the payload with the path id and the existing imageUrl
UpdatedItem(item, item_id, item_update) ==
    MenuItem(item_id, item_update, item.imageUrl)

\* The except branch of update_menu_item calls fetch_menu_data(), a name the
\* module never defines: NameError is raised there, menu_data keeps the
\* change and the HTTPException of the next line is never raised.
UpdateRollback(original, changed) == changed

\* PUT /admin/menu/{item_id}
update_menu_item(item_id, item_update, w) ==
    LET i == FirstIndex(menu_data, item_id)
        updated_item == UpdatedItem(menu_data[i], item_id, item_update)
        changed == [menu_data EXCEPT ![i] = updated_item]
    IN  /\ running
        /\ IF i = 0
           THEN /\ last' = [Response("update", 404) EXCEPT
                               !.id = item_id, !.payload = item_update,
                               !.detail = NOT_FOUND]
                /\ UNCHANGED <<menu_data, file>>
           ELSE /\ file' = WriteMenu(changed, w)
                /\ IF w = "ok"
                   THEN /\ menu_data' = changed
                        /\ last' = [Response("update", 200) EXCEPT
                                       !.id = item_id, !.payload = item_update,
                                       !.item = updated_item]
                   ELSE /\ menu_data' = UpdateRollback(menu_data, changed)
                        /\ last' = [Response("update", 500) EXCEPT
                                       !.id = item_id, !.payload = item_update,
                                       !.detail = INTERNAL_ERROR]
        /\ UNCHANGED <<running, uploads, env, everIds, gone>>

\* Variant of WithImage without the id test: every item gets the url.
WithImageOnAll(menu, i, url) ==
    [j \in 1..Len(menu) |-> [menu[j] EXCEPT !.imageUrl = url]]

\* item["imageUrl"] = payload.imageUrl on the first item with that id
WithImage(menu, i, url) == [menu EXCEPT ![i].imageUrl = url]

\* PUT /admin/menu/{item_id}/image
update_menu_item_image(item_id, url, w) ==
    LET i == FirstIndex(menu_data, item_id)
        changed == WithImage(menu_data, i, url)
    IN  /\ running
        /\ IF i = 0
           THEN /\ last' = [Response("image", 404) EXCEPT
                               !.id = item_id, !.imageUrl = url,
                               !.detail = NOT_FOUND]
                /\ UNCHANGED <<menu_data, file>>
           ELSE /\ menu_data' = changed
                /\ file' = WriteMenu(changed, w)
                /\ last' = IF w = "ok"
                           THEN [Response("image", 200) EXCEPT
                                    !.id = item_id, !.imageUrl = url]
                           ELSE [Response("image", 500) EXCEPT
                                    !.id = item_id, !.imageUrl = url,
                                    !.detail = WRITE_FAILED]
        /\ UNCHANGED <<running, uploads, env, everIds, gone>>

\* Variant of DeleteRollback that keeps the filtered list.
DeleteNoRollback(original, changed) == changed

\* except: menu_data = original_menu_data
DeleteRollback(original, changed) == original

\* DELETE /admin/menu/{item_id}
delete_menu_item(item_id, w) ==
    LET original_menu_data == menu_data
        changed == Without(menu_data, item_id)
    IN  /\ running
        /\ IF item_id \notin Ids(menu_data)
           THEN /\ last' = [Response("delete", 404) EXCEPT
                               !.id = item_id, !.detail = NOT_FOUND]
                /\ UNCHANGED <<menu_data, file, gone>>
           ELSE /\ file' = WriteMenu(changed, w)
                /\ IF w = "ok"
                   THEN /\ menu_data' = changed
                        /\ last' = [Response("delete", 200) EXCEPT !.id = item_id]
                        /\ gone' = gone \cup {item_id}
                   ELSE /\ menu_data' = DeleteRollback(original_menu_data, changed)
                        /\ last' = [Response("delete", 500) EXCEPT
                                       !.id = item_id, !.detail = WRITE_FAILED]
                        /\ UNCHANGED gone
        /\ UNCHANGED <<running, uploads, env, everIds>>

----------------------------------------------------------------------------
(* POST /upload *)

\* A content type is the pair <<type, subtype>>; <<>> is a part without one
\* (file.content_type is None).
NoContentType == <<>>

ContentTypes ==
    {<<"image", "png">>, <<"text", "plain">>, <<"application", "pdf">>,
     NoContentType}

Extensions == {".png", ".txt"}

\* Outcomes of  with open(file_path, "wb") as buffer: shutil.copyfileobj(...):
\* "ok", "open_fail" (no file is created), "copy_fail" (the file was created
\* and the copy raised: a partial file stays in the directory).
CopyOutcomes == {"ok", "open_fail", "copy_fail"}

\* file.content_type.startswith("image/")
IsImage(content_type) == content_type[1] = "image"

StoredFile(n, ext, kind) == [n |-> n, ext |-> ext, kind |-> kind]

\* f"/uploads/{filename}", the filename being a fresh uuid4 and an extension
UploadUrl(n, ext) == [n |-> n, ext |-> ext]

\* decodable: Image.open and thumbnail succeed; saved: image.save succeeds
\* (a failed save removes the file it created); copied: the raw copy's outcome.
upload_file(ext, content_type, decodable, saved, copied) ==
    LET n == Len(uploads) + 1
        request == [Response("upload", 200) EXCEPT !.reqtype = content_type]
        failure(detail) == [request EXCEPT !.status = 500, !.detail = detail]
    IN
    /\ running
    /\ Len(uploads) < MaxUploads
    /\ IF content_type = NoContentType
       THEN \* None has no startswith: AttributeError, caught by the outer except
            /\ last' = failure("AttributeError")
            /\ UNCHANGED uploads
       ELSE IF IsImage(content_type) /\ decodable /\ saved
       THEN /\ uploads' = Append(uploads, StoredFile(n, ".jpg", "jpeg"))
            /\ last' = [request EXCEPT !.url = UploadUrl(n, ".jpg"),
                                       !.ctype = <<"image", "jpeg">>]
       ELSE CASE copied = "ok" ->
                   /\ uploads' = Append(uploads, StoredFile(n, ext, "raw"))
                   /\ last' = [request EXCEPT !.url = UploadUrl(n, ext),
                                              !.ctype = content_type]
              [] copied = "open_fail" ->
                   /\ last' = failure("OSError")
                   /\ UNCHANGED uploads
              [] OTHER ->
                   /\ uploads' = Append(uploads, StoredFile(n, ext, "partial"))
                   /\ last' = failure("OSError")
    /\ UNCHANGED <<running, menu_data, file, env, everIds, gone>>

----------------------------------------------------------------------------
(* POST /chat *)

ERROR_REPLY == "Sorry, I encountered an error with the AI service."
CONFIG_MISSING ==
    "Configuration missing. Please set GOOGLE_API_KEY, ANTHROPIC_API_KEY, or OPENAI_API_KEY in the backend environment."

None == [role |-> "", content |-> ""]

Reply(content) == [role |-> "assistant", content |-> content]

\* Variant of Truthy that takes every helper result, None included.
TruthyAlways(response) == TRUE

\* if response:
Truthy(response) == response # None

Message(role, content) == [role |-> role, content |-> content]

Conversations ==
    { <<>>,
      <<Message("user", "What do you recommend?")>>,
      <<Message("user", "Hi"), Message("assistant", "Hello"),
        Message("user", "What do you recommend?")>> }

ProviderOutcomes == {"ok", "raise"}

\* main.py imports google.generativeai; it imports neither Anthropic nor
\* OpenAI, so evaluating those names raises NameError inside the helper's try.
GenaiImported == TRUE
AnthropicImported == FALSE
OpenAIImported == FALSE

\* What a helper hands back: its return value, and the provider call it
\* made (none when the key is missing) with how that call ended.
NotConfigured == [reply |-> None, call |-> <<>>]

Call(name, result) == <<[name |-> name, result |-> result]>>

\* The body of a helper's try block once the key is present: the provider's
\* text, or the reply of the except branch.  Gemini reads messages[-1], which
\* raises IndexError on an empty conversation.
Attempt(name, imported, needsLast, messages, outcome) ==
    IF imported /\ ~(needsLast /\ messages = <<>>) /\ outcome = "ok"
    THEN [reply |-> Reply(name), call |-> Call(name, "ok")]
    ELSE [reply |-> Reply(ERROR_REPLY), call |-> Call(name, "raise")]

\* Variant of _get_gemini_response without the key check.
GeminiWithoutKeyCheck(messages, outcome) ==
    Attempt("gemini", GenaiImported, TRUE, messages, outcome)

_get_gemini_response(messages, outcome) ==
    IF "gemini" \notin env THEN NotConfigured
    ELSE Attempt("gemini", GenaiImported, TRUE, messages, outcome)

_get_anthropic_response(messages, outcome) ==
    IF "anthropic" \notin env THEN NotConfigured
    ELSE Attempt("anthropic", AnthropicImported, FALSE, messages, outcome)

_get_openai_response(messages, outcome) ==
    IF "openai" \notin env THEN NotConfigured
    ELSE Attempt("openai", OpenAIImported, FALSE, messages, outcome)

chat(messages, g, a, o) ==
    LET r1 == _get_gemini_response(messages, g)
        r2 == _get_anthropic_response(messages, a)
        r3 == _get_openai_response(messages, o)
        reply == IF Truthy(r1.reply) THEN r1.reply
                 ELSE IF Truthy(r2.reply) THEN r2.reply
                 ELSE IF Truthy(r3.reply) THEN r3.reply
                 ELSE Reply(CONFIG_MISSING)
        calls == IF Truthy(r1.reply) THEN r1.call
                 ELSE IF Truthy(r2.reply) THEN r1.call \o r2.call
                 ELSE r1.call \o r2.call \o r3.call
    IN  /\ running
        /\ last' = [Response("chat", 200) EXCEPT
                       !.role = reply.role, !.content = reply.content,
                       !.calls = calls]
        /\ UNCHANGED <<running, menu_data, file, uploads, env, everIds, gone>>

----------------------------------------------------------------------------
Ops == 1..MaxId

\* A step of a single process whose caller passed the token check, where one
\* is required.
Alone == UNCHANGED <<token, other>>

Next ==
    \/ get_menu /\ Alone
    \/ \E item \in Payloads, w \in WriteOutcomes :
           create_menu_item(item, w) /\ Alone
    \/ \E item_id \in Ops, item \in Payloads, w \in WriteOutcomes :
           update_menu_item(item_id, item, w) /\ Alone
    \/ \E item_id \in Ops, url \in ImageUrls, w \in WriteOutcomes :
           update_menu_item_image(item_id, url, w) /\ Alone
    \/ \E item_id \in Ops, w \in WriteOutcomes :
           delete_menu_item(item_id, w) /\ Alone

\* The menu store: one process serving the menu endpoints.
Spec == Init /\ [][Next]_vars

NextUpload ==
    \E ext \in Extensions, ct \in ContentTypes, decodable \in BOOLEAN,
       saved \in BOOLEAN, copied \in CopyOutcomes :
        upload_file(ext, ct, decodable, saved, copied) /\ Alone

\* The upload endpoint.
SpecUpload == Init /\ [][NextUpload]_vars

InitChat ==
    /\ token = AdminToken
    /\ other = <<>>
    /\ file \in InitFiles
    /\ running = Loads(file)
    /\ menu_data = LoadMenu(file)
    /\ uploads = <<>>
    /\ env \in SUBSET ProviderSet
    /\ last = Response("start", 0)
    /\ everIds = Ids(menu_data)
    /\ gone = {}

NextChat ==
    \E messages \in Conversations, g \in ProviderOutcomes,
       a \in ProviderOutcomes, o \in ProviderOutcomes :
        chat(messages, g, a, o) /\ Alone

\* The chat endpoint, under every combination of configured API keys.
SpecChat == InitChat /\ [][NextChat]_vars

----------------------------------------------------------------------------
(* The token check of the admin routes: dependencies=[Depends(              *)
(* get_current_active_user)] on create, update, update_image and delete.    *)

NOT_AUTHENTICATED == "Not authenticated"
BAD_CREDENTIALS == "Could not validate credentials"

\* get_user(db, username): the user's record, or none
get_user(db, username) == {u \in db : u.username = username}

\* Variant of get_current_active_user that trusts the "sub" claim of a token
\* it could not verify.
TrustsUnverifiedToken(tok) ==
    /\ tok.present
    /\ tok.sub # NULL
    /\ \E user \in get_user(fake_users_db, tok.sub) : ~user.disabled

\* TRUE when the dependency returns a user, FALSE when it raises the 401:
\* OAuth2PasswordBearer wants an Authorization header, jwt.decode a good
\* signature and expiry, the payload a "sub", and the user must exist and not
\* be disabled.
get_current_active_user(tok) ==
    /\ tok.present
    /\ tok.valid
    /\ tok.sub # NULL
    /\ \E user \in get_user(fake_users_db, tok.sub) : ~user.disabled

\* A request to an admin route: the dependency runs first, the handler only
\* when it returned a user.
Admin(op, tok, handler) ==
    /\ token' = tok
    /\ UNCHANGED other
    /\ IF get_current_active_user(tok)
       THEN handler
       ELSE /\ running
            /\ last' = [Response(op, 401) EXCEPT
                           !.detail = IF tok.present THEN BAD_CREDENTIALS
                                      ELSE NOT_AUTHENTICATED]
            /\ UNCHANGED <<running, menu_data, file, uploads, env, everIds, gone>>

\* The write outcomes of the specifications below.  "open_fail" is left to
\* Spec: it acts on menu_data exactly as "dump_fail" does and differs only in
\* the old text staying in menu.json.
SomeWrites == {"ok", "dump_fail"}

NextAuth ==
    \/ \E tok \in Tokens : get_menu /\ token' = tok /\ UNCHANGED other
    \/ \E tok \in Tokens :
           Admin("create", tok,
                 \E item \in Payloads, w \in SomeWrites :
                    create_menu_item(item, w))
    \/ \E tok \in Tokens :
           Admin("update", tok,
                 \E item_id \in Ops, item \in Payloads, w \in SomeWrites :
                    update_menu_item(item_id, item, w))
    \/ \E tok \in Tokens :
           Admin("image", tok,
                 \E item_id \in Ops, url \in ImageUrls, w \in SomeWrites :
                    update_menu_item_image(item_id, url, w))
    \/ \E tok \in Tokens :
           Admin("delete", tok,
                 \E item_id \in Ops, w \in SomeWrites :
                    delete_menu_item(item_id, w))

\* The menu endpoints called with any token or none.
SpecAuth == Init /\ [][NextAuth]_vars

----------------------------------------------------------------------------
(* Two worker processes of the application.  Each imported main.py and so   *)
(* holds a menu_data of its own, loaded once at start-up; both open the     *)
(* same menu.json, and no handler takes a lock or reads the file again.     *)
(* menu_data is the collection of the worker that serves the next request,  *)
(* other the collection of the worker that does not.                        *)

\* The next request goes to the other worker.
switch ==
    /\ running
    /\ menu_data' = other
    /\ other' = menu_data
    /\ last' = Response("switch", 0)
    /\ UNCHANGED <<running, file, uploads, env, everIds, gone, token>>

\* Both workers start on the same menu.json.
InitWorkers ==
    /\ token = AdminToken
    /\ file \in InitFiles
    /\ running = Loads(file)
    /\ menu_data = LoadMenu(file)
    /\ other = LoadMenu(file)
    /\ uploads = <<>>
    /\ env = {}
    /\ last = Response("start", 0)
    /\ everIds = Ids(menu_data)
    /\ gone = {}

\* Writes that reach the disk: every change a worker holds was written.
DurableWrites == {"ok"}

NextWorkers ==
    \/ switch
    \/ get_menu /\ Alone
    \/ \E item \in Payloads, w \in DurableWrites :
           create_menu_item(item, w) /\ Alone
    \/ \E item_id \in Ops, item \in Payloads, w \in DurableWrites :
           update_menu_item(item_id, item, w) /\ Alone
    \/ \E item_id \in Ops, w \in DurableWrites :
           delete_menu_item(item_id, w) /\ Alone

\* list, create, update and delete served by two workers.
SpecWorkers == InitWorkers /\ [][NextWorkers]_vars

\* A menu.json that json.load accepts and whose items are not in id order
\* (the file is edited by hand as well as written by the handlers).
UnsortedMenu ==
    <<MenuItem(2, UpdatedPizza, NULL), MenuItem(1, Pizza, NULL)>>

InitAnyFile ==
    /\ token = AdminToken
    /\ other = <<>>
    /\ file \in InitFiles \cup {OkFile(UnsortedMenu)}
    /\ running = Loads(file)
    /\ menu_data = LoadMenu(file)
    /\ uploads = <<>>
    /\ env = {}
    /\ last = Response("start", 0)
    /\ everIds = Ids(menu_data)
    /\ gone = {}

NextAnyFile ==
    \/ get_menu /\ Alone
    \/ \E item \in Payloads, w \in SomeWrites :
           create_menu_item(item, w) /\ Alone
    \/ \E item_id \in Ops, item \in Payloads, w \in SomeWrites :
           update_menu_item(item_id, item, w) /\ Alone
    \/ \E item_id \in Ops, url \in ImageUrls, w \in SomeWrites :
           update_menu_item_image(item_id, url, w) /\ Alone
    \/ \E item_id \in Ops, w \in SomeWrites :
           delete_menu_item(item_id, w) /\ Alone

\* The menu store started on any loadable menu.json.
SpecAnyFile == InitAnyFile /\ [][NextAnyFile]_vars

----------------------------------------------------------------------------
(* Helpers of the properties below *)

Range(seq) == {seq[i] : i \in 1..Len(seq)}

IdSeq(menu) == [i \in 1..Len(menu) |-> menu[i].id]

DistinctIds(menu) ==
    \A i, j \in 1..Len(menu) : i # j => menu[i].id # menu[j].id

Succeeded(r, op) == r.op = op /\ r.status = 200

\* the seq without its k-th element
Dropped(seq, k) ==
    [i \in 1..(Len(seq) - 1) |-> IF i < k THEN seq[i] ELSE seq[i + 1]]

\* the item a create step appended
Created(menu) == menu[Len(menu)]

IsCreate(r) == r.op = "create"

----------------------------------------------------------------------------
(* C1: ids are never reused after deletion: the id create assigns to a new *)
(* item differs from the id of every item that ever was in the collection, *)
(* the deleted ones included.                                               *)

C1_IdNeverReused ==
    [][IsCreate(last') => Created(menu_data').id \notin everIds]_vars

----------------------------------------------------------------------------
(* C2: a configured provider whose call raises is treated as failed and     *)
(* chat falls through to the next provider instead of returning there; with *)
(* exactly one configured provider, raising, the reply is the               *)
(* configuration-missing message.                                           *)

Priority(name) == CHOOSE i \in 1..Len(Providers) : Providers[i] = name

Called(calls) == {calls[i].name : i \in 1..Len(calls)}

Raised(calls) == {calls[i].name : i \in {j \in 1..Len(calls) : calls[j].result = "raise"}}

C2_RaisingProviderFallsThrough ==
    (last.op = "chat" /\ Raised(last.calls) # {}) =>
        /\ last.content # ERROR_REPLY
        /\ \A p \in Raised(last.calls), q \in env :
              Priority(q) > Priority(p) => q \in Called(last.calls)
        /\ Cardinality(env) = 1 => last.content = CONFIG_MISSING

----------------------------------------------------------------------------
(* C3: when the write of menu.json fails during create, the caller gets an  *)
(* internal-failure error and the in-memory collection is not updated.      *)

C3_FailedCreateHasNoEffect ==
    [][(IsCreate(last') /\ last'.status # 200) =>
          /\ last'.status = 500
          /\ menu_data' = menu_data]_vars

----------------------------------------------------------------------------
(* C4: an upload whose content type is not of the image family is rejected  *)
(* with 400 before any side effect: no file is added to the uploads         *)
(* directory and no URL is returned.                                        *)

\* a declared content type outside image/*
NonImage(content_type) ==
    content_type # NoContentType /\ content_type[1] # "image"

C4_NonImageUploadRejected ==
    [][(last'.op = "upload" /\ NonImage(last'.reqtype)) =>
          /\ last'.status = 400
          /\ last'.url = NoUrl
          /\ uploads' = uploads]_vars

----------------------------------------------------------------------------
(* C5: a successful create returns an item whose id is max(existing ids)+1  *)
(* (1 for an empty collection), whose imageUrl is null and whose name,      *)
(* description, price and tags are the given ones; the item is appended to  *)
(* the collection and to the persisted file, every earlier item unchanged.  *)

C5_CreateAppendsNextId ==
    [][Succeeded(last', "create") =>
          LET new == last'.item
              given == last'.payload
          IN  /\ IF menu_data = <<>> THEN new.id = 1
                 ELSE /\ \E i \in 1..Len(menu_data) : new.id = menu_data[i].id + 1
                      /\ \A i \in 1..Len(menu_data) : new.id > menu_data[i].id
              /\ new.imageUrl = NULL
              /\ new.name = given.name
              /\ new.description = given.description
              /\ new.price = given.price
              /\ new.tags = given.tags
              /\ menu_data' = Append(menu_data, new)
              /\ file' = OkFile(menu_data')]_vars

C5_Witness ==
    /\ Succeeded(last, "create")
    /\ Len(menu_data) = 2
    /\ menu_data[1].id = 2
    /\ last.item = menu_data[2]

----------------------------------------------------------------------------
(* C6: after a successful delete(id) the collection and the persisted file  *)
(* hold no item with that id and still hold every other item; with no       *)
(* create in between, a following update(id), update_image(id) or           *)
(* delete(id) fails with 404.                                               *)

C6_DeletedIdIsGone ==
    /\ [][Succeeded(last', "delete") =>
             /\ last'.id \notin Ids(menu_data')
             /\ \A x \in Range(menu_data) : x.id # last'.id => x \in Range(menu_data')
             /\ \A x \in Range(menu_data') : x \in Range(menu_data)
             /\ Len(menu_data') = Len(menu_data) - 1
             /\ file' = OkFile(menu_data')]_vars
    /\ [][(last'.op \in {"update", "image", "delete"} /\ last'.id \in gone) =>
             /\ last'.status = 404
             /\ menu_data' = menu_data]_vars
    /\ [](\A id \in gone : id \notin Ids(menu_data))

C6_Witness ==
    /\ last.op = "update"
    /\ last.status = 404
    /\ last.id \in gone
    /\ menu_data # <<>>

----------------------------------------------------------------------------
(* C7: a successful update(id, fields) replaces name, description, price    *)
(* and tags of the item with that id by the given values, keeps its id, its *)
(* imageUrl and its position, and leaves every other item unchanged; the    *)
(* item's old values are then neither in the collection nor in the file.    *)

C7_UpdateReplacesFields ==
    [][Succeeded(last', "update") =>
          LET id == last'.id
              given == last'.payload
          IN  /\ id \in Ids(menu_data)
              /\ Len(menu_data') = Len(menu_data)
              /\ \A j \in 1..Len(menu_data) :
                    IF menu_data[j].id = id
                    THEN /\ menu_data'[j] =
                              [id |-> id, name |-> given.name,
                               description |-> given.description,
                               price |-> given.price, tags |-> given.tags,
                               imageUrl |-> menu_data[j].imageUrl]
                         /\ last'.item = menu_data'[j]
                         /\ menu_data[j].name # given.name =>
                              /\ menu_data[j] \notin Range(menu_data')
                              /\ menu_data[j] \notin Range(file'.data)
                    ELSE menu_data'[j] = menu_data[j]
              /\ file' = OkFile(menu_data')]_vars

C7_Witness ==
    /\ Succeeded(last, "update")
    /\ Len(menu_data) = 2
    /\ last.item = menu_data[2]
    /\ last.item.imageUrl # NULL
    /\ last.item.name = UpdatedPizza.name
    /\ menu_data[1].name = Pizza.name

----------------------------------------------------------------------------
(* C8: a successful update_image(id, url) sets imageUrl of the item with    *)
(* that id to url and changes nothing else: that item's other fields, all   *)
(* other items, and the size and order of the collection stay.              *)

C8_UpdateImageChangesOnlyImageUrl ==
    [][Succeeded(last', "image") =>
          /\ last'.id \in Ids(menu_data)
          /\ Len(menu_data') = Len(menu_data)
          /\ \A j \in 1..Len(menu_data) :
                IF menu_data[j].id = last'.id
                THEN menu_data'[j] = [menu_data[j] EXCEPT !.imageUrl = last'.imageUrl]
                ELSE menu_data'[j] = menu_data[j]]_vars

C8_Witness ==
    /\ Succeeded(last, "image")
    /\ Len(menu_data) = 2
    /\ menu_data[1].id = last.id
    /\ menu_data[1].imageUrl = last.imageUrl
    /\ menu_data[2].imageUrl = NULL

----------------------------------------------------------------------------
(* C9: from a collection with pairwise distinct ids, after any sequence of  *)
(* create, update, update_image and delete, failed file writes included, no *)
(* two items have the same id, and no operation changes the id of an item:  *)
(* a step keeps the ids in place, appends one, or removes one.              *)

C9_IdsUniqueAndImmutable ==
    /\ [] DistinctIds(menu_data)
    /\ [][\/ IdSeq(menu_data') = IdSeq(menu_data)
          \/ \E n \in 1..(MaxId + 1) :
                IdSeq(menu_data') = Append(IdSeq(menu_data), n)
          \/ \E k \in 1..Len(menu_data) :
                IdSeq(menu_data') = Dropped(IdSeq(menu_data), k)]_vars

C9_Witness ==
    /\ last.op = "update"
    /\ last.status = 500
    /\ Len(menu_data) = 2
    /\ file.state = "corrupt"

----------------------------------------------------------------------------
(* C10: chat tries the providers in the fixed order Gemini, Anthropic,      *)
(* OpenAI; a provider is called only if its key is configured and at most   *)
(* once per chat; the reply of the first provider that succeeds is returned *)
(* at once, no later provider being called.                                 *)

C10_ProvidersInPriorityOrder ==
    last.op = "chat" =>
        LET c == last.calls IN
        /\ \A i, j \in 1..Len(c) :
              i < j => Priority(c[i].name) < Priority(c[j].name)
        /\ \A i \in 1..Len(c) : c[i].name \in env
        /\ \A i \in 1..Len(c), p \in env :
              Priority(p) < Priority(c[i].name) => p \in Called(c)
        /\ env # {} => c # <<>>
        /\ \A i \in 1..Len(c) :
              c[i].result = "ok" =>
                 /\ i = Len(c)
                 /\ last.role = "assistant"
                 /\ last.content = c[i].name

C10_Witness ==
    /\ last.op = "chat"
    /\ env = ProviderSet
    /\ Len(last.calls) = 1
    /\ last.calls[1] = [name |-> "gemini", result |-> "ok"]
    /\ last.content = "gemini"

----------------------------------------------------------------------------
(* C11: with no provider key configured, chat calls no provider and returns *)
(* the fixed configuration-missing message with role "assistant".           *)

C11_NoKeyGivesConfigMissing ==
    (last.op = "chat" /\ env = {}) =>
        /\ last.calls = <<>>
        /\ last.role = "assistant"
        /\ last.content = CONFIG_MISSING

C11_Witness ==
    /\ last.op = "chat"
    /\ env = {}
    /\ last.content = CONFIG_MISSING
    /\ menu_data # <<>>

----------------------------------------------------------------------------
(* C13: when menu.json is missing or corrupt at start-up the store does not *)
(* fail: it comes up with an empty collection.                              *)

C13_UnreadableFileLoadsEmpty ==
    (last.op = "start" /\ file.state \in {"missing", "corrupt"}) =>
        /\ running
        /\ menu_data = <<>>

----------------------------------------------------------------------------
(* C16: in one process, after every create, update, update_image or delete  *)
(* that returns success, menu.json holds exactly the in-memory collection.  *)

Mutations == {"create", "update", "image", "delete"}

C16_FileEqualsMemoryAfterSuccess ==
    [][(last'.op \in Mutations /\ last'.status = 200) =>
          file' = [state |-> "ok", data |-> menu_data']]_vars

C16_Witness ==
    /\ last.op = "image"
    /\ last.status = 200
    /\ Len(menu_data) = 2
    /\ file.state = "ok"
    /\ file.data = menu_data
    /\ \E id \in everIds : id \notin Ids(menu_data)

----------------------------------------------------------------------------
(* C17: when the write of menu.json fails during update, the in-memory      *)
(* change is rolled back and the caller gets the 500 "Failed to write to    *)
(* menu.json".                                                              *)

C17_FailedUpdateRolledBack ==
    [][(last'.op = "update" /\ last'.status \notin {200, 404}) =>
          /\ menu_data' = menu_data
          /\ last'.status = 500
          /\ last'.detail = WRITE_FAILED]_vars

----------------------------------------------------------------------------
(* C18: when the write of menu.json fails during delete, the in-memory      *)
(* collection is the snapshot taken at the start (the item is still there,  *)
(* in its position) and the caller gets a 500.                              *)

C18_FailedDeleteRestoresSnapshot ==
    [][(last'.op = "delete" /\ last'.status \notin {200, 404}) =>
          /\ menu_data' = menu_data
          /\ last'.id \in Ids(menu_data')
          /\ last'.status = 500]_vars

C18_Witness ==
    /\ last.op = "delete"
    /\ last.status = 500
    /\ Len(menu_data) = 2
    /\ menu_data[1].id = last.id
    /\ file.state = "corrupt"

----------------------------------------------------------------------------
(* C19: update, update_image and delete with an id no item has fail with    *)
(* 404 without effect: the collection is unchanged and menu.json is not     *)
(* written.                                                                 *)

C19_MissingIdHasNoEffect ==
    [][(last'.op \in {"update", "image", "delete"}
            /\ last'.id \notin Ids(menu_data)) =>
          /\ last'.status = 404
          /\ menu_data' = menu_data
          /\ file' = file]_vars

C19_Witness ==
    /\ last.op = "image"
    /\ last.status = 404
    /\ menu_data # <<>>
    /\ last.id \notin Ids(menu_data)
    /\ file.state = "ok"
    /\ file.data # menu_data

----------------------------------------------------------------------------
(* C20: for every combination of configured keys and provider outcomes chat *)
(* ends with exactly one reply of role "assistant"; no provider exception   *)
(* reaches the caller, and chat changes neither the collection nor the file.*)

C20_ChatAlwaysReplies ==
    /\ [](running =>
            \A messages \in Conversations, g, a, o \in ProviderOutcomes :
                ENABLED chat(messages, g, a, o))
    /\ [][last'.op = "chat" =>
             /\ last'.status = 200
             /\ last'.role = "assistant"
             /\ last'.content # ""
             /\ menu_data' = menu_data
             /\ file' = file]_vars

C20_Witness ==
    /\ last.op = "chat"
    /\ env = {"anthropic", "openai"}
    /\ last.calls = <<[name |-> "anthropic", result |-> "raise"]>>
    /\ last.role = "assistant"
    /\ last.content = ERROR_REPLY

----------------------------------------------------------------------------
(* C12: list_all returns the whole collection in ascending id order, in     *)
(* every state reachable by create, update, update_image and delete from    *)
(* any loadable menu.json.                                                  *)

Ascending(menu) ==
    \A i, j \in 1..Len(menu) : i < j => menu[i].id < menu[j].id

Listed == last.op = "list" => (last.menu = menu_data /\ Ascending(last.menu))

C12_ListAscendingFromAnyFile == Listed

----------------------------------------------------------------------------
(* C14: create, update, update_image and delete require a valid token of an *)
(* existing, non-disabled user: a request without one is rejected with 401  *)
(* and leaves the collection and menu.json unchanged; list_all needs no     *)
(* token.                                                                   *)

\* a verified token naming the admin, the only user and not disabled
ValidToken(tok) == tok.present /\ tok.valid /\ tok.sub = "admin"

C14_MutationsRequireValidToken ==
    /\ [][(last'.op \in Mutations /\ ~ValidToken(token')) =>
             /\ last'.status = 401
             /\ menu_data' = menu_data
             /\ file' = file]_vars
    /\ [][(last'.op \in Mutations /\ ValidToken(token')) =>
             last'.status # 401]_vars
    /\ [][last'.op = "list" =>
             /\ last'.status = 200
             /\ last'.menu = menu_data]_vars

C14_Witness ==
    /\ last.op = "delete"
    /\ last.status = 401
    /\ token = Jwt(TRUE, "guest")
    /\ Len(menu_data) = 2
    /\ file = OkFile(menu_data)
    /\ everIds # Ids(menu_data)

----------------------------------------------------------------------------
(* C15: with two workers on one menu.json and no lock, a change one worker  *)
(* wrote durably is dropped when the other worker later writes its whole    *)
(* collection: after every successful write the file holds the writer's     *)
(* collection and nothing of the other worker's that the writer lacks, and  *)
(* the file is never a merge of the two.                                    *)

\* the items worker `theirs` holds and worker `mine` does not
OnlyIn(theirs, mine) == Range(theirs) \ Range(mine)

C15_LastWriterWins ==
    /\ [](file.state = "ok" => file.data \in {menu_data, other})
    /\ [][(last'.op \in Mutations /\ last'.status = 200) =>
             /\ file'.state = "ok"
             /\ Range(file'.data) = Range(menu_data')
             /\ OnlyIn(other', menu_data') \cap Range(file'.data) = {}
             /\ other' = other]_vars

\* Worker A updated item 1 and wrote it; worker B, which still holds item 1
\* as loaded, then updated item 2: the file has B's list and A's update of
\* item 1 is in A's memory only.
C15_Witness ==
    /\ last.op = "update"
    /\ last.status = 200
    /\ last.id = 2
    /\ menu_data = <<MenuItem(1, Pizza, "/uploads/a.jpg"), MenuItem(2, Pizza, NULL)>>
    /\ other = <<MenuItem(1, UpdatedPizza, "/uploads/a.jpg"),
                 MenuItem(2, UpdatedPizza, NULL)>>
    /\ file = OkFile(menu_data)

====
